---------------------------- MODULE Spec2Model ----------------------------
(***************************************************************************)
(* A model of the Media CDN signing helpers (media_cdn/snippets.py) and of *)
(* the Composer DAG deployment utility (deploy_dags_from_diff.py).         *)
(*                                                                         *)
(* Text is a sequence of one-character strings and a byte string is a      *)
(* sequence of numbers in 0..255, so that trimming, base64, hexadecimal    *)
(* and decimal formatting are computed character by character as the code  *)
(* computes them.                                                          *)
(***************************************************************************)
EXTENDS Integers, Sequences, FiniteSets, TLC

VARIABLES op, call, ret

vars == <<op, call, ret>>

---------------------------------------------------------------------------
(* Characters, bytes and the codecs of the Python standard library.        *)

\* The printable ASCII characters, in code order starting at code 32; the
\* double quote (34), the backslash (92) and the backtick (96) are written
\* by name.
Ascii ==
  <<
    " ", "!", "dquote", "#", "$", "%", "&", "'", "(", ")", "*", "+", ",", "-", ".", "/",
    "0", "1", "2", "3", "4", "5", "6", "7", "8", "9", ":", ";", "<", "=", ">", "?",
    "@", "A", "B", "C", "D", "E", "F", "G", "H", "I", "J", "K", "L", "M", "N", "O",
    "P", "Q", "R", "S", "T", "U", "V", "W", "X", "Y", "Z", "[", "backslash", "]", "^", "_",
    "backtick", "a", "b", "c", "d", "e", "f", "g", "h", "i", "j", "k", "l", "m", "n", "o",
    "p", "q", "r", "s", "t", "u", "v", "w", "x", "y", "z", "{", "|", "}", "~"
  >>

AsciiSet == {Ascii[i] : i \in 1..Len(Ascii)}

OrdMap == [c \in AsciiSet |-> 31 + (CHOOSE i \in 1..Len(Ascii) : Ascii[i] = c)]

Ord(c) == OrdMap[c]

Chr(n) == Ascii[n - 31]

\* str.encode("utf-8") on ASCII text.
Utf8Encode(s) == [i \in 1..Len(s) |-> Ord(s[i])]

\* bytes.decode("utf-8") on ASCII bytes.
Utf8Decode(b) == [i \in 1..Len(b) |-> Chr(b[i])]

\* The URL-safe base64 alphabet, value 0 first.
B64Chars ==
  <<
    "A", "B", "C", "D", "E", "F", "G", "H", "I", "J", "K", "L", "M", "N", "O", "P",
    "Q", "R", "S", "T", "U", "V", "W", "X", "Y", "Z", "a", "b", "c", "d", "e", "f",
    "g", "h", "i", "j", "k", "l", "m", "n", "o", "p", "q", "r", "s", "t", "u", "v",
    "w", "x", "y", "z", "0", "1", "2", "3", "4", "5", "6", "7", "8", "9", "-", "_"
  >>

B64Set == {B64Chars[i] : i \in 1..Len(B64Chars)}

B64Char(v) == B64Chars[v + 1]

B64ValMap == [c \in B64Set |-> (CHOOSE i \in 1..Len(B64Chars) : B64Chars[i] = c) - 1]

\* base64.urlsafe_b64encode: three bytes make four characters, and the last
\* group is padded with "=" to four characters.
RECURSIVE urlsafe_b64encode(_)
urlsafe_b64encode(b) ==
  IF Len(b) = 0 THEN <<>>
  ELSE IF Len(b) = 1 THEN
    <<B64Char(b[1] \div 4), B64Char((b[1] % 4) * 16), "=", "=">>
  ELSE IF Len(b) = 2 THEN
    <<B64Char(b[1] \div 4),
      B64Char((b[1] % 4) * 16 + (b[2] \div 16)),
      B64Char((b[2] % 16) * 4), "=">>
  ELSE
    <<B64Char(b[1] \div 4),
      B64Char((b[1] % 4) * 16 + (b[2] \div 16)),
      B64Char((b[2] % 16) * 4 + (b[3] \div 64)),
      B64Char(b[3] % 64)>> \o urlsafe_b64encode(SubSeq(b, 4, Len(b)))

RECURSIVE B64DecodeGroups(_)
B64DecodeGroups(v) ==
  IF Len(v) < 2 THEN <<>>
  ELSE IF Len(v) = 2 THEN <<v[1] * 4 + (v[2] \div 16)>>
  ELSE IF Len(v) = 3 THEN
    <<v[1] * 4 + (v[2] \div 16), (v[2] % 16) * 16 + (v[3] \div 4)>>
  ELSE
    <<v[1] * 4 + (v[2] \div 16),
      (v[2] % 16) * 16 + (v[3] \div 4),
      (v[3] % 4) * 64 + v[4]>> \o B64DecodeGroups(SubSeq(v, 5, Len(v)))

\* base64.urlsafe_b64decode of text whose padding, if any, is at its end:
\* characters outside the alphabet are discarded, and a last group that is
\* short of its padding raises binascii.Error.
urlsafe_b64decode(s) ==
  LET data == SelectSeq(s, LAMBDA c : c \in B64Set)
      pads == Len(SelectSeq(s, LAMBDA c : c = "="))
      r    == Len(data) % 4
      ok   == \/ r = 0
              \/ r = 2 /\ pads >= 2
              \/ r = 3 /\ pads >= 1
  IN  IF ok
      THEN [ok |-> TRUE,
            bytes |-> B64DecodeGroups([i \in 1..Len(data) |-> B64ValMap[data[i]]])]
      ELSE [ok |-> FALSE, bytes |-> <<>>]

HexChars == <<"0", "1", "2", "3", "4", "5", "6", "7", "8", "9", "a", "b", "c", "d", "e", "f">>

\* The hexadecimal text of a byte string (hexdigest).
RECURSIVE Hex(_)
Hex(b) ==
  IF Len(b) = 0 THEN <<>>
  ELSE <<HexChars[(b[1] \div 16) + 1], HexChars[(b[1] % 16) + 1]>> \o Hex(Tail(b))

RECURSIVE NatToStr(_)
NatToStr(n) ==
  IF n < 10 THEN <<Chr(48 + n)>>
  ELSE NatToStr(n \div 10) \o <<Chr(48 + (n % 10))>>

\* str(n) of an int.
IntToStr(n) == IF n < 0 THEN <<"-">> \o NatToStr(-n) ELSE NatToStr(n)

\* The only whitespace among the printable ASCII characters.
IsSpace(c) == c = " "

RECURSIVE LStrip(_)
LStrip(s) == IF Len(s) > 0 /\ IsSpace(s[1]) THEN LStrip(Tail(s)) ELSE s

RECURSIVE RStrip(_)
RStrip(s) ==
  IF Len(s) > 0 /\ IsSpace(s[Len(s)]) THEN RStrip(SubSeq(s, 1, Len(s) - 1)) ELSE s

\* str.strip()
Strip(s) == RStrip(LStrip(s))

\* str.lower() on ASCII text.
LowerChar(c) == IF Ord(c) \in 65..90 THEN Chr(Ord(c) + 32) ELSE c

Lower(s) == [i \in 1..Len(s) |-> LowerChar(s[i])]

\* s.find(c): the first index of c in s (from 1), or 0.
Find(s, c) ==
  IF \E i \in 1..Len(s) : s[i] = c
  THEN CHOOSE i \in 1..Len(s) : s[i] = c /\ \A j \in 1..(i - 1) : s[j] # c
  ELSE 0

\* s.split(c)
RECURSIVE Split(_, _)
Split(s, c) ==
  LET i == Find(s, c)
  IN  IF i = 0 THEN <<s>>
      ELSE <<SubSeq(s, 1, i - 1)>> \o Split(SubSeq(s, i + 1, Len(s)), c)

\* needle in s
Contains(s, needle) ==
  \E i \in 1..(Len(s) - Len(needle) + 1) :
    SubSeq(s, i, i + Len(needle) - 1) = needle

StartsWith(s, prefix) ==
  Len(s) >= Len(prefix) /\ SubSeq(s, 1, Len(prefix)) = prefix

---------------------------------------------------------------------------
(* Time.  A naive datetime is the whole number of ticks its wall-clock     *)
(* reading lies after 1970-01-01T00:00:00 (before it: negative); a second  *)
(* holds TicksPerSecond ticks.                                             *)

TicksPerSecond == 2

\* datetime.timedelta(hours=1)
OneHour == 3600 * TicksPerSecond

\* int() of a quotient p / TicksPerSecond: the fraction is dropped, towards zero.
IntTruncate(p) ==
  IF p >= 0 THEN p \div TicksPerSecond ELSE -((-p) \div TicksPerSecond)

\* datetime.datetime.utcfromtimestamp(0)
epoch == 0

\* int((expiration_time - epoch).total_seconds())
EpochSeconds(expiration_time) == IntTruncate(expiration_time - epoch)

\* datetime.datetime.now(): the local wall-clock reading, which is the UTC
\* instant shifted by the offset of the zone.
LocalNow(now_utc, utc_offset) == now_utc + utc_offset

---------------------------------------------------------------------------
(* The cryptographic primitives are library code.  Each is modelled as a   *)
(* deterministic, injective function of the key and the message, so that   *)
(* two signatures agree exactly when key and message agree.                *)

\* Ed25519PrivateKey.from_private_bytes(key) accepts only a 32-byte key.
Ed25519KeyOk(key) == Len(key) = 32

\* Ed25519PrivateKey.from_private_bytes(key).sign(message)
Ed25519Sign(key, message) == key \o message

\* hmac.new(key, message, digestmod).digest(); digestmod is the digest size.
HmacDigest(key, message, digestmod) == <<digestmod, Len(key)>> \o key \o message

---------------------------------------------------------------------------
(* What a call gives back: the value it returns or the exception it       *)
(* raises, the message handed to the signing primitive, and whether the    *)
(* key was decoded.                                                        *)

Returned(value, signed) ==
  [outcome |-> "ok", value |-> value, signed |-> signed, key_decoded |-> TRUE]

Raised(exception, key_decoded) ==
  [outcome |-> exception, value |-> <<>>, signed |-> <<>>,
   key_decoded |-> key_decoded]

---------------------------------------------------------------------------
(* sign_url, sign_url_prefix, sign_cookie                                  *)

\* urllib.parse.urlsplit(url).query: the fragment is cut at the first "#",
\* then the query is what follows the first "?".
UrlSplitQuery(url) ==
  LET h    == Find(url, "#")
      head == IF h = 0 THEN url ELSE SubSeq(url, 1, h - 1)
      q    == Find(head, "?")
  IN  IF q = 0 THEN <<>> ELSE SubSeq(head, q + 1, Len(head))

\* One "name=value" piece of a query, split at its first "=".
NameValue(piece) ==
  LET e == Find(piece, "=")
  IN  IF e = 0 THEN <<piece, <<>>>>
      ELSE <<SubSeq(piece, 1, e - 1), SubSeq(piece, e + 1, Len(piece))>>

\* urllib.parse.parse_qs(query, keep_blank_values=True): the pieces between
\* "&", the empty ones skipped, blank values kept.
ParseQs(query) ==
  LET pieces == SelectSeq(Split(query, "&"), LAMBDA p : Len(p) > 0)
  IN  [i \in 1..Len(pieces) |-> NameValue(pieces[i])]

\* A separator chosen by the mere presence of "?" in the URL.
SeparatorByQuestionMark(url) == IF Find(url, "?") # 0 THEN <<"&">> ELSE <<"?">>

\* separator="&" if query_params else "?"
Separator(stripped_url) ==
  IF Len(ParseQs(UrlSplitQuery(stripped_url))) > 0 THEN <<"&">> ELSE <<"?">>

\* url_pattern.format(...) of sign_url
UrlToSign(stripped_url, expiration_timestamp, key_name) ==
  stripped_url \o Separator(stripped_url) \o <<"E", "x", "p", "i", "r", "e", "s", "=">>
    \o IntToStr(expiration_timestamp) \o <<"&", "K", "e", "y", "N", "a", "m", "e", "=">> \o key_name

sign_url(url, key_name, base64_key, expiration_time) ==
  LET stripped_url         == Strip(url)
      expiration_timestamp == EpochSeconds(expiration_time)
      decoded_key          == urlsafe_b64decode(base64_key)
      url_to_sign == UrlToSign(stripped_url, expiration_timestamp, key_name)
      digest      == Ed25519Sign(decoded_key.bytes, Utf8Encode(url_to_sign))
      signature   == urlsafe_b64encode(digest)
  IN  IF ~decoded_key.ok THEN Raised("binascii.Error", FALSE)
      ELSE IF ~Ed25519KeyOk(decoded_key.bytes)
      THEN Raised("ValueError: key length", TRUE)
      ELSE Returned(url_to_sign \o <<"&", "S", "i", "g", "n", "a", "t", "u", "r", "e", "=">> \o signature, url_to_sign)

\* base64.urlsafe_b64encode(url_prefix.strip().encode("utf-8")).decode("utf-8")
EncodedUrlPrefix(url_prefix) == urlsafe_b64encode(Utf8Encode(Strip(url_prefix)))

\* policy_pattern.format(...) of sign_url_prefix
UrlPrefixPolicy(url_prefix, expiration_timestamp, key_name) ==
  <<"U", "R", "L", "P", "r", "e", "f", "i", "x", "=">> \o EncodedUrlPrefix(url_prefix) \o <<"&", "E", "x", "p", "i", "r", "e", "s", "=">>
    \o IntToStr(expiration_timestamp) \o <<"&", "K", "e", "y", "N", "a", "m", "e", "=">> \o key_name

\* A message that takes in the request URL as well.
UrlPrefixSignsWholeUrl(stripped_url, policy) ==
  stripped_url \o Separator(stripped_url) \o policy

\* The text sign_url_prefix hands to the signing primitive.
UrlPrefixMessage(stripped_url, policy) == policy

\* A separator chosen by the query of url_prefix instead of url.
UrlPrefixSeparatorOfPrefix(stripped_url, url_prefix) ==
  Separator(Strip(url_prefix))

\* The separator sign_url_prefix puts after the request URL.
UrlPrefixSeparator(stripped_url, url_prefix) == Separator(stripped_url)

sign_url_prefix(url, url_prefix, key_name, base64_key, expiration_time) ==
  LET stripped_url         == Strip(url)
      expiration_timestamp == EpochSeconds(expiration_time)
      decoded_key          == urlsafe_b64decode(base64_key)
      policy    == UrlPrefixPolicy(url_prefix, expiration_timestamp, key_name)
      message   == UrlPrefixMessage(stripped_url, policy)
      digest    == Ed25519Sign(decoded_key.bytes, Utf8Encode(message))
      signature == urlsafe_b64encode(digest)
  IN  IF ~decoded_key.ok THEN Raised("binascii.Error", FALSE)
      ELSE IF ~Ed25519KeyOk(decoded_key.bytes)
      THEN Raised("ValueError: key length", TRUE)
      ELSE Returned(stripped_url \o UrlPrefixSeparator(stripped_url, url_prefix)
                      \o policy \o <<"&", "S", "i", "g", "n", "a", "t", "u", "r", "e", "=">> \o signature,
                    message)

\* policy_pattern.format(...) of sign_cookie
CookiePolicy(url_prefix, expiration_timestamp, key_name) ==
  <<"U", "R", "L", "P", "r", "e", "f", "i", "x", "=">> \o EncodedUrlPrefix(url_prefix) \o <<":", "E", "x", "p", "i", "r", "e", "s", "=">>
    \o IntToStr(expiration_timestamp) \o <<":", "K", "e", "y", "N", "a", "m", "e", "=">> \o key_name

sign_cookie(url_prefix, key_name, base64_key, expiration_time) ==
  LET expiration_timestamp == EpochSeconds(expiration_time)
      decoded_key          == urlsafe_b64decode(base64_key)
      policy    == CookiePolicy(url_prefix, expiration_timestamp, key_name)
      digest    == Ed25519Sign(decoded_key.bytes, Utf8Encode(policy))
      signature == urlsafe_b64encode(digest)
  IN  IF ~decoded_key.ok THEN Raised("binascii.Error", FALSE)
      ELSE IF ~Ed25519KeyOk(decoded_key.bytes)
      THEN Raised("ValueError: key length", TRUE)
      ELSE Returned(<<"E", "d", "g", "e", "-", "C", "a", "c", "h", "e", "-", "C", "o", "o", "k", "i", "e", "=">> \o policy \o <<":", "S", "i", "g", "n", "a", "t", "u", "r", "e", "=">> \o signature,
                    policy)

---------------------------------------------------------------------------
(* sign_token                                                              *)

\* An optional argument: None, or a value.
None == [some |-> FALSE, val |-> <<>>]

Some(v) == [some |-> TRUE, val |-> v]

\* Python's truth value of an optional text: None and "" are false.
Truthy(x) == x.some /\ Len(x.val) > 0

\* if url_prefix is None and full_path is None and path_globs is None
ScopeMissing(url_prefix, full_path, path_globs) ==
  ~url_prefix.some /\ ~full_path.some /\ ~path_globs.some

\* The name taken as given, case and all.
AlgoNameAsGiven(encryption_algorithm) == encryption_algorithm

\* algo = encryption_algorithm.lower()
AlgoName(encryption_algorithm) == Lower(encryption_algorithm)

\* algo not in ["sha1", "sha256", "ed25519"]
AlgoAccepted(algo) == algo \in {<<"s", "h", "a", "1">>, <<"s", "h", "a", "2", "5", "6">>, <<"e", "d", "2", "5", "5", "1", "9">>}

\* The if / elif / elif over full_path, path_globs, url_prefix.  When no
\* branch is taken `output` stays unbound.
ScopeField(url_prefix, full_path, path_globs) ==
  IF Truthy(full_path) THEN [bound |-> TRUE, output |-> <<"F", "u", "l", "l", "P", "a", "t", "h">>]
  ELSE IF Truthy(path_globs)
  THEN [bound |-> TRUE, output |-> <<"P", "a", "t", "h", "G", "l", "o", "b", "s", "=">> \o Strip(path_globs.val)]
  ELSE IF Truthy(url_prefix)
  THEN [bound |-> TRUE,
        output |-> <<"U", "R", "L", "P", "r", "e", "f", "i", "x", "=">> \o urlsafe_b64encode(Utf8Encode(url_prefix.val))]
  ELSE [bound |-> FALSE, output |-> <<>>]

\* while chr(output[-1]) == "=": output = output[:-1]
\* The loop follows the if / elif chain, so it runs whichever branch was taken.
RECURSIVE StripTrailingEquals(_)
StripTrailingEquals(output) ==
  IF output[Len(output)] = "="
  THEN StripTrailingEquals(SubSeq(output, 1, Len(output) - 1))
  ELSE output

\* if not expiration_time: expiration_time = now() + timedelta(hours=1)
TokenExpiration(expiration_time, now_utc, utc_offset) ==
  IF expiration_time.some THEN expiration_time.val
  ELSE LocalNow(now_utc, utc_offset) + OneHour

\* b"~hmac=" + hmac.new(decoded_key, output, digestmod).hexdigest()
HmacField(decoded_key, output, digestmod) ==
  <<"~", "h", "m", "a", "c", "=">> \o Hex(HmacDigest(decoded_key, Utf8Encode(output), digestmod))

\* b"~Signature=" + urlsafe_b64encode(Ed25519 signature of output)
SignatureField(decoded_key, output) ==
  <<"~", "S", "i", "g", "n", "a", "t", "u", "r", "e", "=">> \o urlsafe_b64encode(Ed25519Sign(decoded_key, Utf8Encode(output)))

sign_token(base64_key, encryption_algorithm, expiration_time, url_prefix, full_path, path_globs, now_utc, utc_offset) ==
  LET algo  == AlgoName(encryption_algorithm)
      scope == ScopeField(url_prefix, full_path, path_globs)
      epoch_duration ==
        EpochSeconds(TokenExpiration(expiration_time, now_utc, utc_offset))
      output == StripTrailingEquals(scope.output)
                  \o <<"~", "E", "x", "p", "i", "r", "e", "s", "=">> \o IntToStr(epoch_duration)
      decoded_key == urlsafe_b64decode(base64_key)
  IN  IF ScopeMissing(url_prefix, full_path, path_globs)
      THEN Raised("ValueError: scope", FALSE)
      ELSE IF ~AlgoAccepted(algo) THEN Raised("ValueError: algorithm", FALSE)
      ELSE IF ~scope.bound THEN Raised("UnboundLocalError", FALSE)
      ELSE IF ~decoded_key.ok THEN Raised("binascii.Error", FALSE)
      ELSE IF algo = <<"s", "h", "a", "1">>
      THEN Returned(output \o HmacField(decoded_key.bytes, output, 20), output)
      ELSE IF algo = <<"s", "h", "a", "2", "5", "6">>
      THEN Returned(output \o HmacField(decoded_key.bytes, output, 32), output)
      ELSE IF ~Ed25519KeyOk(decoded_key.bytes)
      THEN Raised("ValueError: key length", TRUE)
      ELSE Returned(output \o SignatureField(decoded_key.bytes, output), output)

---------------------------------------------------------------------------
(* deploy_dags_from_diff.py                                                *)

RECURSIVE JoinLines(_)
\* The text of a diff: its lines, joined by newlines.
JoinLines(lines) ==
  IF Len(lines) = 0 THEN <<>>
  ELSE IF Len(lines) = 1 THEN lines[1]
  ELSE lines[1] \o <<"\n">> \o JoinLines(Tail(lines))

\* p / Path(rest): an absolute right-hand side replaces the left, an empty
\* one leaves it.
PathJoin(p, rest) ==
  IF Len(rest) = 0 THEN p
  ELSE IF rest[1] = "/" THEN rest
  ELSE p \o <<"/">> \o rest

\* "+++ b" in diff_result_line and dag_dir in diff_result_line
IsChangedDagLine(dag_dir, diff_result_line) ==
  Contains(diff_result_line, <<"+", "+", "+", " ", "b">>) /\ Contains(diff_result_line, dag_dir)

\* The loop over diff_results.split("\n") that fills changed_file_list.
ChangedFileList(dag_dir, repo_root, diff_results) ==
  LET lines == SelectSeq(Split(diff_results, "\n"),
                         LAMBDA l : IsChangedDagLine(dag_dir, l))
  IN  [i \in 1..Len(lines) |->
         PathJoin(repo_root, SubSeq(lines[i], 7, Len(lines[i])))]

\* return dag_dir, changed_file_list
create_dags_list_from_git_diff(dag_dir, repo_root, diff_results) ==
  <<dag_dir, ChangedFileList(dag_dir, repo_root, diff_results)>>

\* The attributes argparse gives the parsed arguments: one per add_argument.
ArgNames == {"dags_directory", "dags_bucket", "dag_repo", "repo_main"}

\* upload_changed_dags_to_composer as the script calls it: with the tuple
\* (dag_dir, changed_file_list), not with a list of paths.  The loop takes
\* dag_path.name of the first element, the str dag_dir, which has no name.
UploadTuple(dag_list) ==
  IF Len(dag_list) = 0 THEN [outcome |-> "uploaded", uploads |-> <<>>]
  ELSE [outcome |-> "AttributeError: name", uploads |-> <<>>]

\* The script body under __main__.
Main(args, diff_results) ==
  IF "repo_root" \notin DOMAIN args
  THEN [outcome |-> "AttributeError: repo_root", uploads |-> <<>>]
  ELSE LET dag_list == create_dags_list_from_git_diff(
                         args.dags_directory, args.repo_root, diff_results)
       IN  IF Len(dag_list) = 0
           THEN [outcome |-> "No DAGs to upload", uploads |-> <<>>]
           ELSE UploadTuple(dag_list)

---------------------------------------------------------------------------
(* attach_disk.py                                                          *)

\* timeout: int = 300
DefaultTimeout == 300

NoException == [type |-> "none", message |-> <<>>]

\* RuntimeError(operation.error_message)
RuntimeError(message) == [type |-> "RuntimeError", message |-> message]

\* operation.result(timeout=timeout).  The operation is the library object
\* the compute client hands back: polling it may fail, it may finish after
\* `duration` seconds or never, and the wait gives up with TimeoutError once
\* `timeout` seconds have passed.  With no timeout and an operation that
\* never finishes the call does not come back.
OperationResult(operation, timeout) ==
  IF operation.wait_failure.some
  THEN [outcome |-> "raised", exception |-> operation.wait_failure.val]
  ELSE IF operation.duration.some
          /\ (~timeout.some \/ operation.duration.val <= timeout.val)
  THEN [outcome |-> "returned", exception |-> NoException]
  ELSE IF timeout.some
  THEN [outcome |-> "raised",
        exception |-> [type |-> "TimeoutError", message |-> <<>>]]
  ELSE [outcome |-> "blocked", exception |-> NoException]

\* The two lines printed to sys.stderr when the operation has an error code.
ErrorReport(operation, verbose_name) ==
  << <<"E", "r", "r", "o", "r", " ", "d", "u", "r", "i", "n", "g", " ">> \o verbose_name \o <<":", " ", "[", "C", "o", "d", "e", ":", " ">>
       \o IntToStr(operation.error_code) \o <<"]", ":", " ">> \o operation.error_message,
     <<"O", "p", "e", "r", "a", "t", "i", "o", "n", " ", "I", "D", ":", " ">> \o operation.name >>

\* The lines printed to sys.stderr for the warnings of the operation.
WarningReport(operation, verbose_name) ==
  IF Len(operation.warnings) = 0 THEN <<>>
  ELSE << <<"W", "a", "r", "n", "i", "n", "g", "s", " ", "d", "u", "r", "i", "n", "g", " ">> \o verbose_name \o <<":", "\n">> >>
         \o [i \in 1..Len(operation.warnings) |->
               <<" ", "-", " ">> \o operation.warnings[i].code \o <<":", " ">>
                 \o operation.warnings[i].message]

\* A test of the exception of the operation in place of its error code.
ErrorDetectedByException(operation) == operation.exception.some

\* if operation.error_code
ErrorCodeSet(operation) == operation.error_code # 0

\* raise operation.exception() or RuntimeError(operation.error_message)
RaisedForError(operation) ==
  IF operation.exception.some THEN operation.exception.val
  ELSE RuntimeError(operation.error_message)

wait_for_extended_operation(operation, verbose_name, timeout) ==
  LET wait == OperationResult(operation, timeout)
  IN  IF wait.outcome # "returned"
      THEN [outcome |-> wait.outcome, value |-> <<>>,
            exception |-> wait.exception, stderr |-> <<>>, timeout |-> timeout]
      ELSE IF ErrorCodeSet(operation)
      THEN [outcome |-> "raised", value |-> <<>>,
            exception |-> RaisedForError(operation),
            stderr |-> ErrorReport(operation, verbose_name), timeout |-> timeout]
      ELSE [outcome |-> "ok", value |-> operation.result_value,
            exception |-> NoException,
            stderr |-> WarningReport(operation, verbose_name),
            timeout |-> timeout]

\* attach_disk: the request is sent, the operation the client hands back is
\* waited for with the default timeout, and nothing is returned.
attach_disk(request, operation) ==
  LET waited == wait_for_extended_operation(operation, <<"d", "i", "s", "k", " ", "a", "t", "t", "a", "c", "h", "e", "m", "e", "n", "t">>,
                                            Some(DefaultTimeout))
  IN  [waited EXCEPT !.value = <<>>]

---------------------------------------------------------------------------
(* The inputs the calls are made with.                                     *)

MaxTick == 3

MaxDiffLines == 2

Urls ==
  { <<"h", "t", "t", "p", ":", "/", "/", "e", "/", "a">>, <<" ", "h", "t", "t", "p", ":", "/", "/", "e", "/", "a", " ">>, <<"h", "t", "t", "p", ":", "/", "/", "e", "/", "a", "?">>, <<"h", "t", "t", "p", ":", "/", "/", "e", "/", "a", "?", "b", "=", "1">>,
    <<"h", "t", "t", "p", ":", "/", "/", "e", "/", "a", "?", "&">>, <<"h", "t", "t", "p", ":", "/", "/", "e", "/", "a", "?", "b">>, <<"h", "t", "t", "p", ":", "/", "/", "e", "/", "a", "#", "f", "?", "b", "=", "1">> }

UrlPrefixes == { <<"h", "t", "t", "p", ":", "/", "/", "e", "/">>, <<" ", "h", "t", "t", "p", ":", "/", "/", "e", "/", "p">>, <<"h", "t", "t", "p", ":", "/", "/", "e", "/", "p", "q">> }

KeyNames == { <<"m", "y", "-", "k", "e", "y">> }

\* A 32-byte key, a 3-byte key, and a key whose base64 text lacks its padding.
Base64Keys ==
  { urlsafe_b64encode([i \in 1..32 |-> i]), urlsafe_b64encode(<<1, 2, 3>>), <<"A", "Q", "I">> }

\* Instants around the epoch, half seconds included, and one late instant.
ExpirationTimes == (-MaxTick..MaxTick) \cup {1000 * TicksPerSecond + 1}

Algorithms == { <<"s", "h", "a", "1">>, <<"S", "H", "A", "2", "5", "6">>, <<"E", "d", "2", "5", "5", "1", "9">>, <<"m", "d", "5">> }

TokenUrlPrefixes == { None, Some(<<>>), Some(<<"h", "t", "t", "p", ":", "/", "/", "e", "/">>), Some(<<"h", "t", "t", "p", ":", "/", "/", "e", "/", "p">>) }

TokenFullPaths == { None, Some(<<>>), Some(<<"/", "a">>) }

TokenPathGlobs == { None, Some(<<" ">>), Some(<<"/", "a", "=">>), Some(<<" ", "/", "t", "/", "*", "!", "/", "f", "/", "*">>) }

\* The UTC instant of the call, and the offset of the local zone from UTC.
Nows == { 2 * OneHour, 2 * OneHour + 1 }

UtcOffsets == { 0, OneHour }

DagDirs == { <<"d", "a", "g", "s">> }

RepoRoots == { <<"r">> }

DiffLineTexts ==
  { <<"-", "-", "-", " ", "a", "/", "d", "a", "g", "s", "/", "x", ".", "p", "y">>, <<"+", "+", "+", " ", "b", "/", "d", "a", "g", "s", "/", "x", ".", "p", "y">>, <<"+", "+", "+", " ", "b", "/", "o", "/", "y", ".", "p", "y">>, <<"+", "x", " ", "=", " ", "1">> }

RECURSIVE SeqsUpTo(_, _)
SeqsUpTo(S, n) ==
  IF n = 0 THEN {<<>>}
  ELSE LET shorter == SeqsUpTo(S, n - 1)
       IN  shorter \cup {Append(s, x) : s \in shorter, x \in S}

Diffs == {JoinLines(lines) : lines \in SeqsUpTo(DiffLineTexts, MaxDiffLines)}

Buckets == { <<"b", "k", "t">> }

MaxWarnings == 1

OperationWarnings == { [code |-> <<"W", "1">>, message |-> <<"s", "l", "o", "w">>] }

\* What polling the operation may fail with.
WaitFailures == { None, Some([type |-> "ServiceUnavailable", message |-> <<"d", "o", "w", "n">>]) }

\* The seconds the operation takes, None for one that never finishes.
Durations == { None, Some(5), Some(DefaultTimeout + 1) }

\* The exception the operation reports for itself, if any.
OperationExceptions == { None, Some([type |-> "Forbidden", message |-> <<"d", "e", "n", "i", "e", "d">>]) }

Operations ==
  [ name : { <<"o", "p", "-", "1">> },
    wait_failure : WaitFailures,
    duration : Durations,
    result_value : { <<"d", "o", "n", "e">> },
    error_code : { 0, 403 },
    error_message : { <<>>, <<"d", "e", "n", "i", "e", "d">> },
    exception : OperationExceptions,
    warnings : SeqsUpTo(OperationWarnings, MaxWarnings) ]

Timeouts == { None, Some(1), Some(DefaultTimeout) }

AttachRequests ==
  [ project : { <<"p">> }, zone : { <<"z">> }, instance : { <<"i">> },
    source : { <<"/", "p", "r", "o", "j", "e", "c", "t", "s", "/", "p", "/", "z", "o", "n", "e", "s", "/", "z", "/", "d", "i", "s", "k", "s", "/", "d">> },
    mode : { <<"R", "E", "A", "D", "_", "O", "N", "L", "Y">>, <<"R", "E", "A", "D", "_", "W", "R", "I", "T", "E">> } ]

---------------------------------------------------------------------------
(* The state machine.  The functions share no state, so a behaviour is one *)
(* call: a step takes the arguments of the call and leaves what the call   *)
(* gives back.                                                             *)

Init ==
  /\ op = "none"
  /\ call = [none |-> TRUE]
  /\ ret = [outcome |-> "none"]

SignUrl ==
  /\ op = "none"
  /\ \E url \in Urls, key_name \in KeyNames, base64_key \in Base64Keys,
        expiration_time \in ExpirationTimes :
       /\ op' = "sign_url"
       /\ call' = [url |-> url, key_name |-> key_name, base64_key |-> base64_key,
                   expiration_time |-> expiration_time]
       /\ ret' = sign_url(url, key_name, base64_key, expiration_time)

SignUrlPrefix ==
  /\ op = "none"
  /\ \E url \in Urls, url_prefix \in UrlPrefixes, key_name \in KeyNames,
        base64_key \in Base64Keys, expiration_time \in ExpirationTimes :
       /\ op' = "sign_url_prefix"
       /\ call' = [url |-> url, url_prefix |-> url_prefix, key_name |-> key_name,
                   base64_key |-> base64_key, expiration_time |-> expiration_time]
       /\ ret' = sign_url_prefix(url, url_prefix, key_name, base64_key,
                                 expiration_time)

SignCookie ==
  /\ op = "none"
  /\ \E url_prefix \in UrlPrefixes, key_name \in KeyNames,
        base64_key \in Base64Keys, expiration_time \in ExpirationTimes :
       /\ op' = "sign_cookie"
       /\ call' = [url_prefix |-> url_prefix, key_name |-> key_name,
                   base64_key |-> base64_key, expiration_time |-> expiration_time]
       /\ ret' = sign_cookie(url_prefix, key_name, base64_key, expiration_time)

SignToken ==
  /\ op = "none"
  /\ \E base64_key \in Base64Keys, encryption_algorithm \in Algorithms,
        expiration_time \in {None} \cup {Some(t) : t \in ExpirationTimes},
        url_prefix \in TokenUrlPrefixes, full_path \in TokenFullPaths,
        path_globs \in TokenPathGlobs, now_utc \in Nows, utc_offset \in UtcOffsets :
       /\ op' = "sign_token"
       /\ call' = [base64_key |-> base64_key,
                   encryption_algorithm |-> encryption_algorithm,
                   expiration_time |-> expiration_time, url_prefix |-> url_prefix,
                   full_path |-> full_path, path_globs |-> path_globs,
                   now_utc |-> now_utc, utc_offset |-> utc_offset]
       /\ ret' = sign_token(base64_key, encryption_algorithm, expiration_time,
                            url_prefix, full_path, path_globs, now_utc, utc_offset)

CreateDagsList ==
  /\ op = "none"
  /\ \E dag_dir \in DagDirs, repo_root \in RepoRoots, diff_results \in Diffs :
       /\ op' = "create_dags_list_from_git_diff"
       /\ call' = [dag_dir |-> dag_dir, repo_root |-> repo_root,
                   diff_results |-> diff_results]
       /\ ret' = [outcome |-> "ok",
                  value |-> create_dags_list_from_git_diff(dag_dir, repo_root,
                                                           diff_results)]

RunMain ==
  /\ op = "none"
  /\ \E dag_dir \in DagDirs, repo_root \in RepoRoots, bucket \in Buckets,
        diff_results \in Diffs :
       /\ op' = "main"
       /\ call' = [args |-> [dags_directory |-> dag_dir, dags_bucket |-> bucket,
                             dag_repo |-> repo_root, repo_main |-> <<"m", "a", "i", "n">>],
                   diff_results |-> diff_results]
       /\ ret' = Main(call'.args, diff_results)

WaitForExtendedOperation ==
  /\ op = "none"
  /\ \E operation \in Operations, timeout \in Timeouts :
       /\ op' = "wait_for_extended_operation"
       /\ call' = [operation |-> operation, verbose_name |-> <<"o", "p", "e", "r", "a", "t", "i", "o", "n">>,
                   timeout |-> timeout]
       /\ ret' = wait_for_extended_operation(operation, <<"o", "p", "e", "r", "a", "t", "i", "o", "n">>, timeout)

AttachDisk ==
  /\ op = "none"
  /\ \E request \in AttachRequests, operation \in Operations :
       /\ op' = "attach_disk"
       /\ call' = [request |-> request, operation |-> operation]
       /\ ret' = attach_disk(request, operation)

Next ==
  \/ SignUrl
  \/ SignUrlPrefix
  \/ SignCookie
  \/ SignToken
  \/ CreateDagsList
  \/ RunMain
  \/ WaitForExtendedOperation
  \/ AttachDisk

Spec == Init /\ [][Next]_vars

---------------------------------------------------------------------------
(* Vocabulary of the properties below, stated apart from the code.         *)

Signers == {"sign_url", "sign_url_prefix", "sign_cookie", "sign_token"}

\* An optional argument supplied as a non-null, non-empty value.
Present(x) == x.some /\ x.val # <<>>

\* s without its leading and trailing blanks.
Trimmed(s) ==
  LET inked == {i \in 1..Len(s) : s[i] # " "}
  IN  IF inked = {} THEN <<>>
      ELSE SubSeq(s, CHOOSE i \in inked : \A j \in inked : i <= j,
                     CHOOSE i \in inked : \A j \in inked : i >= j)

EndsWith(s, suffix) ==
  Len(s) >= Len(suffix) /\ SubSeq(s, Len(s) - Len(suffix) + 1, Len(s)) = suffix

\* The URL has a "?" ahead of any "#", and between that "?" and the fragment
\* at least one character that is not the "&" between parameters.
CarriesQueryParameters(u) ==
  \E q \in 1..Len(u) :
    /\ u[q] = "?"
    /\ \A k \in 1..(q - 1) : u[k] \notin {"?", "#"}
    /\ \E j \in (q + 1)..Len(u) :
         /\ u[j] # "&"
         /\ \A k \in q..j : u[k] # "#"

ExpectedSeparator(u) == IF CarriesQueryParameters(u) THEN <<"&">> ELSE <<"?">>

\* floor(t - epoch), in whole seconds.
FloorSeconds(t) == t \div TicksPerSecond

\* The two names are the same but for the case of their letters.
SameIgnoringCase(a, b) ==
  /\ Len(a) = Len(b)
  /\ \A i \in 1..Len(a) :
       \/ a[i] = b[i]
       \/ Ord(a[i]) \in 65..90 /\ Ord(b[i]) = Ord(a[i]) + 32
       \/ Ord(b[i]) \in 65..90 /\ Ord(a[i]) = Ord(b[i]) + 32

AlgorithmIs(name) == SameIgnoringCase(call.encryption_algorithm, name)

InputValidationErrors == {"ValueError: scope", "ValueError: algorithm"}

\* The text of s after the first occurrence of marker.
RECURSIVE After(_, _)
After(s, marker) ==
  IF Len(s) < Len(marker) THEN <<>>
  ELSE IF StartsWith(s, marker) THEN SubSeq(s, Len(marker) + 1, Len(s))
  ELSE After(Tail(s), marker)

RECURSIVE LeadingNumber(_)
\* The digits (and sign) s starts with.
LeadingNumber(s) ==
  IF Len(s) > 0 /\ s[1] \in {"-", "0", "1", "2", "3", "4", "5", "6", "7", "8", "9"}
  THEN <<s[1]>> \o LeadingNumber(Tail(s))
  ELSE <<>>

RECURSIVE DigitsValue(_)
DigitsValue(d) ==
  IF Len(d) = 0 THEN 0
  ELSE 10 * DigitsValue(SubSeq(d, 1, Len(d) - 1)) + (Ord(d[Len(d)]) - 48)

\* The number in the Expires field of a signed artifact.
ExpiresField(value) ==
  LET n == LeadingNumber(After(value, <<"E", "x", "p", "i", "r", "e", "s", "=">>))
  IN  IF Len(n) > 0 /\ n[1] = "-" THEN -DigitsValue(Tail(n)) ELSE DigitsValue(n)

\* The call of the current state made again with another expiration_time.
SameCallExpiringAt(t) ==
  IF op = "sign_url"
  THEN sign_url(call.url, call.key_name, call.base64_key, t)
  ELSE IF op = "sign_url_prefix"
  THEN sign_url_prefix(call.url, call.url_prefix, call.key_name,
                       call.base64_key, t)
  ELSE IF op = "sign_cookie"
  THEN sign_cookie(call.url_prefix, call.key_name, call.base64_key, t)
  ELSE sign_token(call.base64_key, call.encryption_algorithm, Some(t),
                  call.url_prefix, call.full_path, call.path_globs,
                  call.now_utc, call.utc_offset)

\* The expiration_time the call was given, if any.
GivenExpiration ==
  IF op = "sign_token" THEN call.expiration_time ELSE Some(call.expiration_time)

DecodedKey == urlsafe_b64decode(call.base64_key).bytes

\* The Ed25519 signature of a text under the key of the call, base64 encoded.
EncodedSignatureOf(text) ==
  urlsafe_b64encode(Ed25519Sign(DecodedKey, Utf8Encode(text)))

\* The HMAC of a text under the key of the call, in hexadecimal.
HexHmacOf(text, digestmod) == Hex(HmacDigest(DecodedKey, Utf8Encode(text), digestmod))

---------------------------------------------------------------------------
(* The properties.                                                         *)

NumberPresent ==
  Cardinality({x \in {"url_prefix", "full_path", "path_globs"} : Present(call[x])})

\* C1: a sign_token call in which not exactly one of url_prefix, full_path,
\* path_globs is supplied as a non-null, non-empty value fails with an
\* input-validation error (ValueError) before the key is decoded, and returns
\* no token.
C1_ExactlyOneScopeOrValueError ==
  (op = "sign_token" /\ NumberPresent # 1) =>
    /\ ret.outcome \in InputValidationErrors
    /\ ~ret.key_decoded
    /\ ret.value = <<>>

\* The separator a policy field ends with in the artifact of each signer.
FieldEnd == IF op = "sign_cookie" THEN <<":">> ELSE IF op = "sign_token" THEN <<"~">> ELSE <<"&">>

\* What the artifact carries ahead of the signed policy string.
LeadOfArtifact ==
  IF op = "sign_url_prefix"
  THEN Trimmed(call.url) \o ExpectedSeparator(Trimmed(call.url))
  ELSE IF op = "sign_cookie" THEN <<"E", "d", "g", "e", "-", "C", "a", "c", "h", "e", "-", "C", "o", "o", "k", "i", "e", "=">>
  ELSE <<>>

\* The signature field that closes the artifact, computed over a text.
SignatureFieldOver(text) ==
  IF op = "sign_cookie" THEN <<":", "S", "i", "g", "n", "a", "t", "u", "r", "e", "=">> \o EncodedSignatureOf(text)
  ELSE IF op \in {"sign_url", "sign_url_prefix"}
  THEN <<"&", "S", "i", "g", "n", "a", "t", "u", "r", "e", "=">> \o EncodedSignatureOf(text)
  ELSE IF AlgorithmIs(<<"s", "h", "a", "1">>) THEN <<"~", "h", "m", "a", "c", "=">> \o HexHmacOf(text, 20)
  ELSE IF AlgorithmIs(<<"s", "h", "a", "2", "5", "6">>) THEN <<"~", "h", "m", "a", "c", "=">> \o HexHmacOf(text, 32)
  ELSE <<"~", "S", "i", "g", "n", "a", "t", "u", "r", "e", "=">> \o EncodedSignatureOf(text)

\* The shape of the policy string of each signer.
IsPolicyOfCall(policy) ==
  LET keyname == <<"K", "e", "y", "N", "a", "m", "e", "=">> \o call.key_name
  IN  IF op = "sign_url"
      THEN /\ StartsWith(policy, Trimmed(call.url))
           /\ EndsWith(policy, <<"&">> \o keyname)
           /\ Contains(policy, <<"E", "x", "p", "i", "r", "e", "s", "=">>)
      ELSE IF op = "sign_url_prefix"
      THEN /\ StartsWith(policy, <<"U", "R", "L", "P", "r", "e", "f", "i", "x", "=">>)
           /\ EndsWith(policy, <<"&">> \o keyname)
           /\ Contains(policy, <<"&", "E", "x", "p", "i", "r", "e", "s", "=">>)
      ELSE IF op = "sign_cookie"
      THEN /\ StartsWith(policy, <<"U", "R", "L", "P", "r", "e", "f", "i", "x", "=">>)
           /\ EndsWith(policy, <<":">> \o keyname)
           /\ Contains(policy, <<":", "E", "x", "p", "i", "r", "e", "s", "=">>)
      ELSE \E n \in 1..Len(policy) :
             /\ SubSeq(policy, n, n + 8) = <<"~", "E", "x", "p", "i", "r", "e", "s", "=">>
             /\ LeadingNumber(SubSeq(policy, n + 9, Len(policy)))
                  = SubSeq(policy, n + 9, Len(policy))
             /\ ~Contains(SubSeq(policy, 1, n - 1), <<"~">>)

\* C2: in all four signing operations the returned artifact is the policy
\* string handed to the signing primitive (for sign_url_prefix after the
\* request URL and its separator, for sign_cookie after the cookie name)
\* followed by the signature field computed over exactly that policy string,
\* and nothing follows the encoded signature.
C2_SignatureOverPolicyAndLast ==
  (op \in Signers /\ ret.outcome = "ok") =>
    /\ IsPolicyOfCall(ret.signed)
    /\ ret.value = LeadOfArtifact \o ret.signed \o SignatureFieldOver(ret.signed)
    /\ \A i \in (Len(LeadOfArtifact) + Len(ret.signed) + 2)..Len(ret.value) :
         ret.value[i] \notin {"&", ":", "~", "?"}

C2_Witness ==
  /\ op = "sign_url_prefix"
  /\ ret.outcome = "ok"
  /\ call.url = <<"h", "t", "t", "p", ":", "/", "/", "e", "/", "a", "?", "b", "=", "1">>
  /\ Contains(ret.value, <<"?", "b", "=", "1", "&", "U", "R", "L", "P", "r", "e", "f", "i", "x", "=">>)

\* C3: for every expiration_time, instants with a fractional second and
\* instants before the epoch included, the Expires field of the artifact is
\* floor(expiration_time - epoch) in whole seconds, and an expiration_time one
\* second later gives a field greater by exactly one.
C3_ExpiresIsFloor ==
  (op \in Signers /\ ret.outcome = "ok" /\ GivenExpiration.some) =>
    LET t == GivenExpiration.val
    IN  /\ Contains(ret.value, <<"E", "x", "p", "i", "r", "e", "s", "=">> \o IntToStr(FloorSeconds(t)) \o FieldEnd)
        /\ ExpiresField(SameCallExpiringAt(t + TicksPerSecond).value)
             = ExpiresField(ret.value) + 1

\* C4: sign_url returns the trimmed URL, then "&" if the trimmed URL carries
\* one or more query parameters and "?" otherwise, then
\* Expires={epoch_seconds}&KeyName={key_name}&Signature={encoded_signature}.
C4_SignUrlFormat ==
  (op = "sign_url" /\ ret.outcome = "ok") =>
    LET trimmed_url == Trimmed(call.url)
        policy == trimmed_url \o ExpectedSeparator(trimmed_url)
                    \o <<"E", "x", "p", "i", "r", "e", "s", "=">> \o IntToStr(EpochSeconds(call.expiration_time))
                    \o <<"&", "K", "e", "y", "N", "a", "m", "e", "=">> \o call.key_name
    IN  ret.value = policy \o <<"&", "S", "i", "g", "n", "a", "t", "u", "r", "e", "=">> \o EncodedSignatureOf(policy)

C4_Witness ==
  /\ op = "sign_url"
  /\ ret.outcome = "ok"
  /\ call.url = <<"h", "t", "t", "p", ":", "/", "/", "e", "/", "a", "?">>
  /\ StartsWith(ret.value, <<"h", "t", "t", "p", ":", "/", "/", "e", "/", "a", "?", "?", "E", "x", "p", "i", "r", "e", "s", "=">>)

\* C5: in sign_url_prefix two calls that differ only in url sign the same
\* policy string and carry the same Signature value; url gives only the
\* leading trimmed URL of the output and the separator after it, which is
\* "&" if url carries query parameters and "?" otherwise.
C5_PrefixPayloadIndependentOfUrl ==
  (op = "sign_url_prefix" /\ ret.outcome = "ok") =>
    \A url2 \in Urls :
      LET other == sign_url_prefix(url2, call.url_prefix, call.key_name,
                                   call.base64_key, call.expiration_time)
          lead(u) == Trimmed(u) \o ExpectedSeparator(Trimmed(u))
      IN  /\ other.outcome = "ok"
          /\ other.signed = ret.signed
          /\ After(other.value, <<"&", "S", "i", "g", "n", "a", "t", "u", "r", "e", "=">>) = After(ret.value, <<"&", "S", "i", "g", "n", "a", "t", "u", "r", "e", "=">>)
          /\ StartsWith(ret.value, lead(call.url))
          /\ StartsWith(other.value, lead(url2))
          /\ SubSeq(other.value, Len(lead(url2)) + 1, Len(other.value))
               = SubSeq(ret.value, Len(lead(call.url)) + 1, Len(ret.value))
          /\ StartsWith(SubSeq(ret.value, Len(lead(call.url)) + 1, Len(ret.value)),
                        <<"U", "R", "L", "P", "r", "e", "f", "i", "x", "=">>)

C5_Witness ==
  /\ op = "sign_url_prefix"
  /\ ret.outcome = "ok"
  /\ call.url = <<"h", "t", "t", "p", ":", "/", "/", "e", "/", "a", "#", "f", "?", "b", "=", "1">>
  /\ sign_url_prefix(<<"h", "t", "t", "p", ":", "/", "/", "e", "/", "a", "?", "b">>, call.url_prefix, call.key_name,
                     call.base64_key, call.expiration_time).signed = ret.signed

RECURSIVE Before(_, _)
Before(s, marker) ==
  IF Len(s) < Len(marker) \/ StartsWith(s, marker) THEN <<>>
  ELSE <<s[1]>> \o Before(Tail(s), marker)

\* C7: sign_token picks the scope field by the fixed priority full_path,
\* path_globs, url_prefix.  With full_path present the payload is the
\* literal FullPath and nothing else; otherwise with path_globs present the
\* payload starts with PathGlobs=; URLPrefix= is used only when url_prefix is
\* the only one present.
C7_ScopePriority ==
  (op = "sign_token" /\ ret.outcome = "ok") =>
    LET payload == Before(ret.value, <<"~", "E", "x", "p", "i", "r", "e", "s", "=">>)
    IN  /\ Present(call.full_path) => payload = <<"F", "u", "l", "l", "P", "a", "t", "h">>
        /\ (~Present(call.full_path) /\ Present(call.path_globs)) =>
             StartsWith(payload, <<"P", "a", "t", "h", "G", "l", "o", "b", "s", "=">>)
        /\ StartsWith(payload, <<"U", "R", "L", "P", "r", "e", "f", "i", "x", "=">>) <=>
             (/\ Present(call.url_prefix)
              /\ ~Present(call.full_path)
              /\ ~Present(call.path_globs))

\* C8: in sign_token the trailing "=" characters are removed only from the
\* base64 text of the url_prefix branch.  For every path_globs value, one
\* whose trimmed text ends in "=" or is empty included, the token begins
\* with PathGlobs={trimmed_glob_expression}~Expires=.
C8_PathGlobsVerbatim ==
  (/\ op = "sign_token"
   /\ ret.outcome = "ok"
   /\ ~Present(call.full_path)
   /\ Present(call.path_globs)) =>
    StartsWith(ret.value,
               <<"P", "a", "t", "h", "G", "l", "o", "b", "s", "=">> \o Trimmed(call.path_globs.val) \o <<"~", "E", "x", "p", "i", "r", "e", "s", "=">>)

\* No line of the diff names a changed file under the DAG directory.
NoChangedDagFile(diff_results, dag_dir) ==
  LET lines == Split(diff_results, "\n")
  IN  \A i \in 1..Len(lines) :
        ~StartsWith(lines[i], <<"+", "+", "+", " ", "b", "/">> \o dag_dir \o <<"/">>)

\* C9: when the diff holds no changed file under the DAG directory, the
\* result of create_dags_list_from_git_diff has length 0, and the script
\* takes its No DAGs to upload branch and uploads nothing.
C9_NoChangesGivesEmptyResult ==
  /\ (/\ op = "create_dags_list_from_git_diff"
      /\ NoChangedDagFile(call.diff_results, call.dag_dir)) =>
       Len(ret.value) = 0
  /\ (/\ op = "main"
      /\ NoChangedDagFile(call.diff_results, call.args.dags_directory)) =>
       /\ ret.outcome = "No DAGs to upload"
       /\ ret.uploads = <<>>

\* C10: without expiration_time the Expires field of the token is the number
\* of seconds from the epoch (UTC) to the instant of the call plus 3600,
\* whatever the local zone; with expiration_time the instant of the call and
\* the zone have no effect on the token.
C10_DefaultExpiryIsUtcNowPlusHour ==
  (op = "sign_token" /\ ret.outcome = "ok") =>
    /\ ~call.expiration_time.some =>
         ExpiresField(ret.value) = FloorSeconds(call.now_utc) + 3600
    /\ call.expiration_time.some =>
         \A now2 \in Nows, offset2 \in UtcOffsets :
           sign_token(call.base64_key, call.encryption_algorithm,
                      call.expiration_time, call.url_prefix, call.full_path,
                      call.path_globs, now2, offset2) = ret

\* The timeout the wait of the current call was asked to use.
TimeoutOfCall ==
  IF op = "attach_disk" THEN Some(300) ELSE call.timeout

\* The operation finishes, unfailing, within the timeout of the call.
FinishesInTime ==
  /\ ~call.operation.wait_failure.some
  /\ call.operation.duration.some
  /\ TimeoutOfCall.some => call.operation.duration.val <= TimeoutOfCall.val

\* C11: wait_for_extended_operation waits with the timeout it is given, 300
\* seconds by default and in attach_disk, and a wait with a timeout always
\* comes back.  A failure or a timeout of the wait itself reaches the
\* caller.  Once the wait is over, an operation with an error code makes the
\* call raise the exception of the operation, or a RuntimeError when it has
\* none, and never return the result; an operation without an error code
\* has its result returned, whether or not it carries warnings.
C11_WaitRaisesOnErrorCode ==
  op \in {"wait_for_extended_operation", "attach_disk"} =>
    LET operation == call.operation
    IN  /\ ret.timeout = TimeoutOfCall
        /\ TimeoutOfCall.some => ret.outcome # "blocked"
        /\ operation.wait_failure.some =>
             /\ ret.outcome = "raised"
             /\ ret.exception = operation.wait_failure.val
        /\ (~operation.wait_failure.some /\ TimeoutOfCall.some /\ ~FinishesInTime) =>
             /\ ret.outcome = "raised"
             /\ ret.exception.type = "TimeoutError"
        /\ (FinishesInTime /\ operation.error_code # 0) =>
             /\ ret.outcome = "raised"
             /\ ret.value = <<>>
             /\ ret.exception =
                  IF operation.exception.some THEN operation.exception.val
                  ELSE [type |-> "RuntimeError", message |-> operation.error_message]
        /\ (FinishesInTime /\ operation.error_code = 0) =>
             /\ ret.outcome = "ok"
             /\ op = "wait_for_extended_operation" =>
                  ret.value = operation.result_value
        /\ ret.outcome = "ok" => operation.error_code = 0

C11_Witness ==
  /\ op = "wait_for_extended_operation"
  /\ call.operation.error_code # 0
  /\ ~call.operation.exception.some
  /\ Len(call.operation.warnings) > 0
  /\ FinishesInTime
  /\ ret.outcome = "raised"
  /\ ret.exception.type = "RuntimeError"

=============================================================================
